---- MODULE Spec2Model ----
(***************************************************************************)
(* GlassPass (src/js/app.js): the password generator, the Fisher-Yates     *)
(* shuffle, the strength evaluator and the event handlers that drive them. *)
(*                                                                         *)
(* A character is a one-character string, a JavaScript string or array of  *)
(* characters is a sequence of them.  Math.random() is the one source of   *)
(* nondeterminism: every use in the code is Math.floor(Math.random() * n), *)
(* so a draw is modelled by the integer it floors to.                      *)
(***************************************************************************)
EXTENDS Integers, Sequences, FiniteSets, TLC

VARIABLES
    checkboxes,        \* elements.checkboxes.<class>.checked
    lengthSlider,      \* elements.lengthSlider.value (a decimal string)
    lengthValue,       \* elements.lengthValue.textContent
    passwordOutput,    \* elements.passwordOutput.value
    passwordSettings,  \* the global passwordSettings object
    toast,             \* the message showError displayed in the last handler
    uncaught,          \* whether an exception left the last handler
    appState,          \* "loading" until initializeApp has run, then "ready"
    call,              \* a direct call of generateSecurePassword
    shuffle,           \* a direct call of shuffleArray
    strength           \* a direct call of evaluatePasswordStrength

vars == <<checkboxes, lengthSlider, lengthValue, passwordOutput,
          passwordSettings, toast, uncaught, appState,
          call, shuffle, strength>>

(***************************************************************************)
(* Bounds of the model.                                                    *)
(***************************************************************************)
\* Each character class is cut to its first ClassPrefix characters.
ClassPrefix == 1
\* generateSecurePassword is called directly with length 0..MaxLength.
MaxLength == 4
\* The length slider of the page ranges over 1..MaxSlider.
MaxSlider == 3
\* shuffleArray is called directly on arrays of up to MaxArray elements.
MaxArray == 4
\* evaluatePasswordStrength is given any string of up to MaxCore characters
\* followed by up to MaxPad repetitions of one character.
MaxCore == 4
MaxPad == 9

(***************************************************************************)
(* Helpers on sequences.                                                   *)
(***************************************************************************)
Min(a, b) == IF a <= b THEN a ELSE b

Range(s) == {s[k] : k \in 1..Len(s)}

Prefix(s, n) == SubSeq(s, 1, Min(n, Len(s)))

RECURSIVE Product(_)
\* The sequences whose k-th element is drawn from sets[k].
Product(sets) ==
    IF Len(sets) = 0 THEN {<<>>}
    ELSE {Append(p, x) : p \in Product(SubSeq(sets, 1, Len(sets) - 1)),
                         x \in sets[Len(sets)]}

\* Array.prototype.join(''): the characters in order; the model keeps a
\* string as the sequence of its characters, and the empty string '' that
\* charAt returns out of range contributes no character.
Join(array) == SelectSeq(array, LAMBDA c : c # "")

(***************************************************************************)
(* CHAR_SETS (lines 10-15).                                                *)
(***************************************************************************)
LOWERCASE ==
    <<"a", "b", "c", "d", "e", "f", "g", "h", "i", "j", "k", "l", "m",
      "n", "o", "p", "q", "r", "s", "t", "u", "v", "w", "x", "y", "z">>

UPPERCASE ==
    <<"A", "B", "C", "D", "E", "F", "G", "H", "I", "J", "K", "L", "M",
      "N", "O", "P", "Q", "R", "S", "T", "U", "V", "W", "X", "Y", "Z">>

NUMBERS == <<"0", "1", "2", "3", "4", "5", "6", "7", "8", "9">>

SYMBOLS ==
    <<"!", "@", "#", "$", "%", "^", "&", "*", "(", ")", "_", "+", "-",
      "=", "[", "]", "{", "}", "|", ";", ":", ",", ".", "<", ">", "?">>

CHAR_SETS ==
    [lowercase |-> Prefix(LOWERCASE, ClassPrefix),
     uppercase |-> Prefix(UPPERCASE, ClassPrefix),
     numbers   |-> Prefix(NUMBERS, ClassPrefix),
     symbols   |-> Prefix(SYMBOLS, ClassPrefix)]

ClassNames == {"lowercase", "uppercase", "numbers", "symbols"}

(***************************************************************************)
(* Math.floor(Math.random() * n): Math.random() is in [0, 1), so the       *)
(* result is one of 0..n-1, and 0 when n is 0.                             *)
(***************************************************************************)
RandomBelow(n) == IF n <= 0 THEN {0} ELSE 0..(n - 1)

\* String.prototype.charAt: the character at a 0-based index, '' outside.
CharAt(chars, index) ==
    IF index + 1 \in 1..Len(chars) THEN chars[index + 1] ELSE ""

\* getRandomChar (lines 103-105), r the value of the floored draw.
GetRandomChar(chars, r) == CharAt(chars, r)

(***************************************************************************)
(* shuffleArray (lines 112-119).  js[k] is the j drawn in the k-th         *)
(* iteration, the one with i = Len(array) - k.  The result records the     *)
(* caller's array after the call beside the returned one.                  *)
(***************************************************************************)
\* A slip: j drawn from the whole array in every iteration.
ShuffleRangeNaive(i, n) == RandomBelow(n)

\* The range j is drawn from in the iteration with index i, of a shuffle of
\* n elements (line 115).
ShuffleRange(i, n) == RandomBelow(i + 1)

\* The sequences of draws a shuffle of n elements can make: one draw for
\* each i from n-1 down to 1.
ShuffleChoices(n) ==
    IF n <= 1 THEN {<<>>}
    ELSE Product([k \in 1..(n - 1) |-> ShuffleRange(n - k, n)])

\* A slip: a[i] = a[j] without keeping the old a[i].
SwapOverwrite(a, i, j) == [a EXCEPT ![i + 1] = a[j + 1]]

\* [a[i], a[j]] = [a[j], a[i]] (line 116), i and j 0-based.
Swap(a, i, j) == [a EXCEPT ![i + 1] = a[j + 1], ![j + 1] = a[i + 1]]

RECURSIVE ShuffleLoop(_, _, _)
\* The loop of lines 114-117 from index i on.
ShuffleLoop(shuffled, i, js) ==
    IF i > 0
    THEN ShuffleLoop(Swap(shuffled, i, js[Len(shuffled) - i]), i - 1, js)
    ELSE shuffled

\* The copy of line 113 is shuffled and returned; `array` is not written.
ShuffleArray(array, js) ==
    LET shuffled == ShuffleLoop(array, Len(array) - 1, js)
    IN  [array |-> array, returned |-> shuffled]

(***************************************************************************)
(* generateSecurePassword (lines 56-96).                                   *)
(***************************************************************************)
\* The classes in the order of the four ifs (lines 63-81) with their flags.
EnabledClasses(settings) ==
    (IF settings.includeLowercase THEN <<"lowercase">> ELSE <<>>)
    \o (IF settings.includeUppercase THEN <<"uppercase">> ELSE <<>>)
    \o (IF settings.includeNumbers THEN <<"numbers">> ELSE <<>>)
    \o (IF settings.includeSymbols THEN <<"symbols">> ELSE <<>>)

\* A slip: the symbols follow the numbers' flag.
AvailableCharsSlip(settings) ==
    (IF settings.includeLowercase THEN CHAR_SETS.lowercase ELSE <<>>)
    \o (IF settings.includeUppercase THEN CHAR_SETS.uppercase ELSE <<>>)
    \o (IF settings.includeNumbers THEN CHAR_SETS.numbers ELSE <<>>)
    \o (IF settings.includeNumbers THEN CHAR_SETS.symbols ELSE <<>>)

\* availableChars after the four ifs (lines 60, 64, 69, 74, 79).
AvailableChars(settings) ==
    (IF settings.includeLowercase THEN CHAR_SETS.lowercase ELSE <<>>)
    \o (IF settings.includeUppercase THEN CHAR_SETS.uppercase ELSE <<>>)
    \o (IF settings.includeNumbers THEN CHAR_SETS.numbers ELSE <<>>)
    \o (IF settings.includeSymbols THEN CHAR_SETS.symbols ELSE <<>>)

\* A slip: the guaranteed characters drawn from the whole pool.
GuaranteedCharsFromPool(settings, g) ==
    [k \in 1..Len(EnabledClasses(settings)) |->
        GetRandomChar(AvailableChars(settings), g[k])]

\* guaranteedChars after the four ifs (lines 61, 65, 70, 75, 80), g[k] the
\* draw made for the k-th enabled class.
GuaranteedChars(settings, g) ==
    [k \in 1..Len(EnabledClasses(settings)) |->
        GetRandomChar(CHAR_SETS[EnabledClasses(settings)[k]], g[k])]

\* A slip: the test of line 84 left out.
NeverRejected(availableChars) == FALSE

\* The test of line 84.
NoCharacterSet(availableChars) == Len(availableChars) = 0

\* Array.from({ length: n }, f) makes no element for a negative n.
ArrayFromLength(n) == IF n > 0 THEN n ELSE 0

\* The number of fill draws (line 91): none when line 85 throws first.
FillCount(settings) ==
    IF NoCharacterSet(AvailableChars(settings)) THEN 0
    ELSE ArrayFromLength(settings.length - Len(EnabledClasses(settings)))

\* The draws one call makes, in the order it makes them: one per enabled
\* class, the fill, the shuffle.
Draws(settings) ==
    LET enabled == EnabledClasses(settings)
        fill == FillCount(settings)
        n == IF NoCharacterSet(AvailableChars(settings)) THEN 0
             ELSE Len(enabled) + fill
    IN  {[guaranteed |-> g, fill |-> f, shuffle |-> s] :
            g \in Product([k \in 1..Len(enabled) |->
                              RandomBelow(Len(CHAR_SETS[enabled[k]]))]),
            f \in [1..fill -> RandomBelow(Len(AvailableChars(settings)))],
            s \in ShuffleChoices(n)}

\* The message of line 85 (and of line 151); the model writes the messages
\* without their accents.
MsgNoCharacterSet == "Debe seleccionar al menos un tipo de caracter"

GenerateSecurePassword(settings, rnd) ==
    LET availableChars == AvailableChars(settings)
        guaranteedChars == GuaranteedChars(settings, rnd.guaranteed)
    IN  IF NoCharacterSet(availableChars)
        THEN [threw |-> TRUE, message |-> MsgNoCharacterSet, value |-> <<>>,
              draws |-> Len(guaranteedChars)]
        ELSE LET remainingLength == settings.length - Len(guaranteedChars)
                 filled == [k \in 1..ArrayFromLength(remainingLength) |->
                               GetRandomChar(availableChars, rnd.fill[k])]
                 password == guaranteedChars \o filled
                 shuffled == ShuffleArray(password, rnd.shuffle).returned
             IN  [threw |-> FALSE, message |-> "", value |-> Join(shuffled),
                  draws |-> Len(password) + Len(rnd.shuffle)]

\* The settings objects the model calls generateSecurePassword with.
SettingsSpace ==
    [length : 0..(IF MaxLength >= MaxSlider THEN MaxLength ELSE MaxSlider),
     includeUppercase : BOOLEAN, includeLowercase : BOOLEAN,
     includeNumbers : BOOLEAN, includeSymbols : BOOLEAN]

\* Everything one call can do on given settings, over all its draws,
\* tabulated once for the settings of SettingsSpace.
OutcomeTable ==
    {<<settings, {GenerateSecurePassword(settings, rnd) : rnd \in Draws(settings)}>> :
        settings \in SettingsSpace}

Outcomes(settings) == (CHOOSE entry \in OutcomeTable : entry[1] = settings)[2]

(***************************************************************************)
(* evaluatePasswordStrength (lines 435-458).                               *)
(***************************************************************************)
\* /[a-z]/, /[A-Z]/, /[0-9]/ and /[^a-zA-Z0-9]/ tested on a string.
TestLower(password) == \E k \in 1..Len(password) : password[k] \in Range(LOWERCASE)

TestUpper(password) == \E k \in 1..Len(password) : password[k] \in Range(UPPERCASE)

TestDigit(password) == \E k \in 1..Len(password) : password[k] \in Range(NUMBERS)

TestOther(password) ==
    \E k \in 1..Len(password) :
        password[k] \notin Range(LOWERCASE) \cup Range(UPPERCASE) \cup Range(NUMBERS)

MsgUseEight == "Usar al menos 8 caracteres"

\* A slip: > for >= in the length test.
LengthStepStrict(password) ==
    IF Len(password) > 12 THEN [score |-> 2, feedback |-> <<>>]
    ELSE IF Len(password) > 8 THEN [score |-> 1, feedback |-> <<>>]
    ELSE [score |-> 0, feedback |-> <<MsgUseEight>>]

\* The score and the feedback after the length test (lines 440-442).
LengthStep(password) ==
    IF Len(password) >= 12 THEN [score |-> 2, feedback |-> <<>>]
    ELSE IF Len(password) >= 8 THEN [score |-> 1, feedback |-> <<>>]
    ELSE [score |-> 0, feedback |-> <<MsgUseEight>>]

\* The label of a score (lines 451-455).
StrengthOf(score) ==
    IF score >= 6 THEN "Muy fuerte"
    ELSE IF score >= 4 THEN "Fuerte"
    ELSE IF score >= 2 THEN "Media"
    ELSE "Debil"

EvaluatePasswordStrength(password) ==
    LET s0 == LengthStep(password)
        s1 == s0.score + (IF TestLower(password) THEN 1 ELSE 0)
        s2 == s1 + (IF TestUpper(password) THEN 1 ELSE 0)
        s3 == s2 + (IF TestDigit(password) THEN 1 ELSE 0)
        s4 == s3 + (IF TestOther(password) THEN 1 ELSE 0)
    IN  [strength |-> StrengthOf(s4), score |-> s4, feedback |-> s0.feedback]

(***************************************************************************)
(* The page: the DOM elements the handlers read and write, the global      *)
(* passwordSettings, and what the last handler showed and let escape.      *)
(***************************************************************************)
Digits == <<"0", "1", "2", "3", "4", "5", "6", "7", "8", "9">>

RECURSIVE NumberToString(_)
\* The decimal string of a non-negative integer: what the DOM keeps as a
\* range input's value and as a textContent assigned a number.
NumberToString(n) ==
    IF n < 10 THEN <<Digits[n + 1]>>
    ELSE NumberToString(n \div 10) \o <<Digits[(n % 10) + 1]>>

RECURSIVE ParseDigits(_, _)
ParseDigits(s, acc) ==
    IF Len(s) = 0 THEN acc
    ELSE ParseDigits(Tail(s),
                     10 * acc + (CHOOSE d \in 0..9 : Digits[d + 1] = Head(s)))

\* parseInt of a range input's value, a non-empty string of decimal digits.
ParseInt(s) == ParseDigits(s, 0)

Page ==
    [checkboxes |-> checkboxes, lengthSlider |-> lengthSlider,
     lengthValue |-> lengthValue, passwordOutput |-> passwordOutput,
     passwordSettings |-> passwordSettings, toast |-> toast,
     uncaught |-> uncaught]

\* The settings object built from the controls (lines 41-45 and 126-130).
SettingsFromControls(page) ==
    [length |-> ParseInt(page.lengthSlider),
     includeUppercase |-> page.checkboxes.uppercase,
     includeLowercase |-> page.checkboxes.lowercase,
     includeNumbers |-> page.checkboxes.numbers,
     includeSymbols |-> page.checkboxes.symbols]

\* updatePasswordSettings (lines 124-132).
UpdatePasswordSettings(page) ==
    [page EXCEPT !.passwordSettings = SettingsFromControls(page)]

\* validateSettings (lines 138-141).
ValidateSettings(settings) ==
    \/ settings.includeUppercase
    \/ settings.includeLowercase
    \/ settings.includeNumbers
    \/ settings.includeSymbols

\* showError (lines 261-300): the message is put on the page.
ShowError(page, message) == [page EXCEPT !.toast = message]

MsgGenerateFailed == "Error al generar la contrasena"

MsgKeepOne == "Debe mantener al menos una opcion seleccionada"

\* A slip: invalid settings end the handler without a message.
HandleGeneratePasswordSilent(page) ==
    LET updated == UpdatePasswordSettings(page)
    IN  IF ~ValidateSettings(updated.passwordSettings)
        THEN {updated}
        ELSE {IF generated.threw THEN ShowError(updated, MsgGenerateFailed)
              ELSE [updated EXCEPT !.passwordOutput = generated.value] :
                  generated \in Outcomes(updated.passwordSettings)}

\* handleGeneratePassword (lines 146-179): the try block up to the
\* assignment of line 165, and the catch of lines 175-178.  A handler is
\* the set of pages it can leave; `generated` is what the call of line 164
\* does.
HandleGeneratePassword(page) ==
    LET updated == UpdatePasswordSettings(page)
    IN  IF ~ValidateSettings(updated.passwordSettings)
        THEN {ShowError(updated, MsgNoCharacterSet)}
        ELSE {IF generated.threw THEN ShowError(updated, MsgGenerateFailed)
              ELSE [updated EXCEPT !.passwordOutput = generated.value] :
                  generated \in Outcomes(updated.passwordSettings)}

\* A slip: the new length is recorded and no password is generated.
HandleLengthChangeNoRegen(page) ==
    LET newLength == ParseInt(page.lengthSlider)
    IN  {[page EXCEPT !.lengthValue = NumberToString(newLength),
                      !.passwordSettings.length = newLength]}

\* handleLengthChange (lines 305-314).
HandleLengthChange(page) ==
    LET newLength == ParseInt(page.lengthSlider)
        changed == [page EXCEPT !.lengthValue = NumberToString(newLength),
                                !.passwordSettings.length = newLength]
    IN  IF changed.passwordOutput # <<>>
        THEN HandleGeneratePassword(changed)
        ELSE {changed}

\* Object.values(elements.checkboxes).some(checkbox => checkbox.checked).
AnyChecked(boxes) == \E c \in ClassNames : boxes[c]

\* A slip: the message is shown and the checkbox is left unchecked.
HandleCheckboxChangeNoRevert(page, target) ==
    LET updated == UpdatePasswordSettings(page)
    IN  IF ~AnyChecked(updated.checkboxes)
        THEN {ShowError(updated, MsgKeepOne)}
        ELSE IF updated.passwordOutput # <<>>
             THEN HandleGeneratePassword(updated)
             ELSE {updated}

\* handleCheckboxChange (lines 320-337), target the checkbox of the event.
HandleCheckboxChange(page, target) ==
    LET updated == UpdatePasswordSettings(page)
    IN  IF ~AnyChecked(updated.checkboxes)
        THEN {ShowError([updated EXCEPT !.checkboxes[target] = TRUE], MsgKeepOne)}
        ELSE IF updated.passwordOutput # <<>>
             THEN HandleGeneratePassword(updated)
             ELSE {updated}

(***************************************************************************)
(* The page as a state machine (specification Spec).                       *)
(***************************************************************************)
NoCall == [status |-> "none"]

SliderValues == {NumberToString(n) : n \in 1..MaxSlider}

\* A handler starts with nothing shown and nothing thrown.
Dispatched(page) == [page EXCEPT !.toast = "", !.uncaught = FALSE]

SetPage(page) ==
    /\ checkboxes' = page.checkboxes
    /\ lengthSlider' = page.lengthSlider
    /\ lengthValue' = page.lengthValue
    /\ passwordOutput' = page.passwordOutput
    /\ passwordSettings' = page.passwordSettings
    /\ toast' = page.toast
    /\ uncaught' = page.uncaught

\* The page as loaded: the controls as the document sets them, the output
\* empty, passwordSettings read from the controls (lines 40-46).
Init ==
    /\ checkboxes \in [ClassNames -> BOOLEAN]
    /\ lengthSlider \in SliderValues
    /\ lengthValue = lengthSlider
    /\ passwordOutput = <<>>
    /\ passwordSettings = SettingsFromControls(
           [checkboxes |-> checkboxes, lengthSlider |-> lengthSlider])
    /\ toast = ""
    /\ uncaught = FALSE
    /\ appState = "loading"
    /\ call = NoCall
    /\ shuffle = NoCall
    /\ strength = NoCall

\* initializeApp (lines 392-413): the listeners, then a first password.
InitializeApp ==
    /\ appState = "loading"
    /\ appState' = "ready"
    /\ \E after \in HandleGeneratePassword(Dispatched(Page)) : SetPage(after)
    /\ UNCHANGED <<call, shuffle, strength>>

\* A click on the generate button (line 352) or Ctrl/Cmd+Enter (line 374).
ClickGenerate ==
    /\ appState = "ready"
    /\ \E after \in HandleGeneratePassword(Dispatched(Page)) : SetPage(after)
    /\ UNCHANGED <<appState, call, shuffle, strength>>

\* The slider is moved to another value and its input event is handled
\* (line 358).
InputLength ==
    /\ appState = "ready"
    /\ \E v \in SliderValues \ {lengthSlider} :
           LET moved == [Dispatched(Page) EXCEPT !.lengthSlider = v]
           IN  \E after \in HandleLengthChange(moved) : SetPage(after)
    /\ UNCHANGED <<appState, call, shuffle, strength>>

\* The checkbox `target` is toggled and its change event is handled
\* (lines 361-363).
ChangeCheckboxOf(target) ==
    /\ appState = "ready"
    /\ LET toggled == [Dispatched(Page) EXCEPT
                          !.checkboxes[target] = ~checkboxes[target]]
       IN  \E after \in HandleCheckboxChange(toggled, target) : SetPage(after)
    /\ UNCHANGED <<appState, call, shuffle, strength>>

ChangeCheckbox == \E target \in ClassNames : ChangeCheckboxOf(target)

Next == InitializeApp \/ ClickGenerate \/ InputLength \/ ChangeCheckbox

Spec == Init /\ [][Next]_vars

(***************************************************************************)
(* Direct calls of the three functions, the page left alone.               *)
(***************************************************************************)
\* No page is involved: its elements stay as an untouched document has them.
PageUnused ==
    /\ checkboxes = [c \in ClassNames |-> FALSE]
    /\ lengthSlider = NumberToString(1)
    /\ lengthValue = NumberToString(1)
    /\ passwordOutput = <<>>
    /\ toast = ""
    /\ uncaught = FALSE
    /\ appState = "direct"

PageVars ==
    <<checkboxes, lengthSlider, lengthValue, passwordOutput, toast, uncaught,
      appState>>

\* generateSecurePassword on any settings object (specification GenSpec).
GenInit ==
    /\ PageUnused
    /\ passwordSettings \in {s \in SettingsSpace : s.length <= MaxLength}
    /\ call = NoCall
    /\ shuffle = NoCall
    /\ strength = NoCall

CallGenerate ==
    /\ call.status = "none"
    /\ \E rnd \in Draws(passwordSettings) :
           \E r \in {GenerateSecurePassword(passwordSettings, rnd)} :
               call' = [status |-> IF r.threw THEN "threw" ELSE "returned",
                        message |-> r.message, value |-> r.value,
                        draws |-> r.draws]
    /\ UNCHANGED <<PageVars, passwordSettings, shuffle, strength>>

GenNext == CallGenerate

GenSpec == GenInit /\ [][GenNext]_vars

\* shuffleArray on any array of up to MaxArray characters (ShuffleSpec).
ShuffleInputs ==
    UNION {[1..n -> Range(Prefix(LOWERCASE, MaxArray))] : n \in 0..MaxArray}

ShuffleInit ==
    /\ PageUnused
    /\ passwordSettings = SettingsFromControls(
           [checkboxes |-> checkboxes, lengthSlider |-> lengthSlider])
    /\ call = NoCall
    /\ shuffle \in {[status |-> "ready", input |-> a] : a \in ShuffleInputs}
    /\ strength = NoCall

CallShuffle ==
    /\ shuffle.status = "ready"
    /\ \E js \in ShuffleChoices(Len(shuffle.input)) :
           \E r \in {ShuffleArray(shuffle.input, js)} :
               shuffle' = [status |-> "done", input |-> shuffle.input,
                           array |-> r.array, returned |-> r.returned,
                           js |-> js]
    /\ UNCHANGED <<PageVars, passwordSettings, call, strength>>

ShuffleNext == CallShuffle

ShuffleSpec == ShuffleInit /\ [][ShuffleNext]_vars

\* evaluatePasswordStrength on strings of every length up to
\* MaxCore + MaxPad (specification EvalSpec): a lowercase letter, an
\* uppercase letter, a digit, a symbol and a space, in any order, then one
\* of them repeated.
EvalAlphabet == {"a", "Z", "7", "?", " "}

EvalInputs ==
    {core \o [k \in 1..n |-> c] :
        core \in UNION {[1..m -> EvalAlphabet] : m \in 0..MaxCore},
        c \in EvalAlphabet, n \in 0..MaxPad}

EvalInit ==
    /\ PageUnused
    /\ passwordSettings = SettingsFromControls(
           [checkboxes |-> checkboxes, lengthSlider |-> lengthSlider])
    /\ call = NoCall
    /\ shuffle = NoCall
    /\ strength \in {[status |-> "ready", password |-> p] : p \in EvalInputs}

CallEvaluate ==
    /\ strength.status = "ready"
    /\ strength' = [status |-> "done", password |-> strength.password,
                    result |-> EvaluatePasswordStrength(strength.password)]
    /\ UNCHANGED <<PageVars, passwordSettings, call, shuffle>>

EvalNext == CallEvaluate

EvalSpec == EvalInit /\ [][EvalNext]_vars

(***************************************************************************)
(* The claims.                                                             *)
(***************************************************************************)
Enabled == EnabledClasses(passwordSettings)

Returned == call.status = "returned"

\* The number of positions of s that hold c.
Count(s, c) == Cardinality({k \in 1..Len(s) : s[k] = c})

\* C1: for every valid configuration (length >= 1, at least one class
\* enabled), also one whose length is smaller than the number of enabled
\* classes, the call returns a string of exactly `length` characters.
C1_LengthIsRequestedLength ==
    (call.status # "none" /\ passwordSettings.length >= 1
        /\ ValidateSettings(passwordSettings))
    => (Returned /\ Len(call.value) = passwordSettings.length)

\* C2: with at least one class enabled and length >= the number of enabled
\* classes, the returned string holds a character of each enabled class,
\* whatever the draws.
C2_EveryEnabledClassPresent ==
    (Returned /\ Len(Enabled) >= 1 /\ passwordSettings.length >= Len(Enabled))
    => \A k \in 1..Len(Enabled) :
           \E m \in 1..Len(call.value) :
               call.value[m] \in Range(CHAR_SETS[Enabled[k]])

\* A call with several classes enabled and room for fill characters
\* returned a string holding every enabled class.
C2_Witness ==
    /\ Returned
    /\ Len(Enabled) >= 2
    /\ passwordSettings.length > Len(Enabled)
    /\ call.value[1] \notin Range(CHAR_SETS[Enabled[1]])
    /\ \A k \in 1..Len(Enabled) :
           \E m \in 1..Len(call.value) :
               call.value[m] \in Range(CHAR_SETS[Enabled[k]])

\* C3: with the four flags false the call fails with the error for every
\* length, returns no password, and has made no random draw.
C3_NoClassIsRejectedBeforeAnyDraw ==
    (call.status # "none" /\ ~ValidateSettings(passwordSettings))
    => /\ call.status = "threw"
       /\ call.message = MsgNoCharacterSet
       /\ call.value = <<>>
       /\ call.draws = 0

\* A call with no class enabled and a positive length has thrown.
C3_Witness ==
    /\ ~ValidateSettings(passwordSettings)
    /\ passwordSettings.length = MaxLength
    /\ call.status = "threw"
    /\ call.draws = 0

\* C4: every character of the returned string belongs to an enabled
\* class; no character of a disabled class appears.
C4_OnlyEnabledClasses ==
    Returned
    => \A m \in 1..Len(call.value) :
           \E k \in 1..Len(Enabled) :
               call.value[m] \in Range(CHAR_SETS[Enabled[k]])

\* A call with a class disabled and fill characters drawn has returned.
C4_Witness ==
    /\ Returned
    /\ Len(Enabled) \in 1..3
    /\ passwordSettings.length > Len(Enabled)
    /\ Len(call.value) = passwordSettings.length
    /\ \A m \in 1..Len(call.value) :
           \E k \in 1..Len(Enabled) :
               call.value[m] \in Range(CHAR_SETS[Enabled[k]])

\* C5: shuffleArray only reorders: the returned array holds each element as
\* many times as the input does, and the input array is left as it was.
C5_ShuffleIsAPermutation ==
    shuffle.status = "done"
    => /\ Len(shuffle.returned) = Len(shuffle.input)
       /\ \A c \in Range(shuffle.input) \cup Range(shuffle.returned) :
              Count(shuffle.returned, c) = Count(shuffle.input, c)
       /\ shuffle.array = shuffle.input

\* A shuffle of an array with a repeated element returned another order.
C5_Witness ==
    /\ shuffle.status = "done"
    /\ Len(shuffle.input) >= 3
    /\ Cardinality(Range(shuffle.input)) = 2
    /\ shuffle.returned # shuffle.input
    /\ shuffle.array = shuffle.input

Distinct(s) == Cardinality(Range(s)) = Len(s)

\* The orderings of the elements of s.
Orderings(s) ==
    {[k \in 1..Len(s) |-> s[f[k]]] : f \in Permutations(1..Len(s))}

\* C9: a shuffle of n elements makes one swap for each i from n-1 down to
\* 1, with j drawn from 0..i; so for n distinct elements each of the n!
\* orderings is returned for exactly one sequence of draws.
C9_TrueFisherYates ==
    /\ shuffle.status = "done"
       => LET n == Len(shuffle.input)
          IN  /\ Len(shuffle.js) = (IF n >= 1 THEN n - 1 ELSE 0)
              /\ \A k \in 1..Len(shuffle.js) : shuffle.js[k] \in 0..(n - k)
    /\ (shuffle.status = "ready" /\ Distinct(shuffle.input))
       => \A p \in Orderings(shuffle.input) :
              Cardinality({js \in ShuffleChoices(Len(shuffle.input)) :
                  ShuffleArray(shuffle.input, js).returned = p}) = 1

\* A shuffle of distinct elements drew each j from its range and returned
\* the input reversed.
C9_Witness ==
    /\ shuffle.status = "done"
    /\ Len(shuffle.input) >= 3
    /\ Distinct(shuffle.input)
    /\ shuffle.returned =
           [k \in 1..Len(shuffle.input) |->
               shuffle.input[Len(shuffle.input) + 1 - k]]

\* The kinds of character the claim counts.
KindOf(c) ==
    IF c \in Range(LOWERCASE) THEN "lowercase letter"
    ELSE IF c \in Range(UPPERCASE) THEN "uppercase letter"
    ELSE IF c \in Range(NUMBERS) THEN "digit"
    ELSE "other"

\* The claim's names of the labels the code returns.
LabelOf(strengthText) ==
    CASE strengthText = "Muy fuerte" -> "very strong"
      [] strengthText = "Fuerte" -> "strong"
      [] strengthText = "Media" -> "medium"
      [] strengthText = "Debil" -> "weak"

\* C6: for every string, the empty one too, the score is 2 for a length
\* >= 12, else 1 for a length >= 8, else 0, plus the number of kinds of
\* character present; the label is 'very strong' from 6, 'strong' from 4,
\* 'medium' from 2, 'weak' below; the feedback is the one length advisory
\* exactly when the length is under 8.
C6_StrengthReport ==
    strength.status = "done"
    => LET p == strength.password
           expected ==
               (IF Len(p) >= 12 THEN 2 ELSE IF Len(p) >= 8 THEN 1 ELSE 0)
               + Cardinality({KindOf(p[k]) : k \in 1..Len(p)})
       IN  /\ strength.result.score = expected
           /\ LabelOf(strength.result.strength) =
                  (IF expected >= 6 THEN "very strong"
                   ELSE IF expected >= 4 THEN "strong"
                   ELSE IF expected >= 2 THEN "medium"
                   ELSE "weak")
           /\ strength.result.feedback =
                  (IF Len(p) < 8 THEN <<MsgUseEight>> ELSE <<>>)

\* A string of 12 characters of all four kinds was scored 6, very strong,
\* with no feedback.
C6_Witness ==
    /\ strength.status = "done"
    /\ Len(strength.password) = 12
    /\ Cardinality({KindOf(strength.password[k]) :
                       k \in 1..Len(strength.password)}) = 4
    /\ strength.result.score = 6
    /\ strength.result.strength = "Muy fuerte"
    /\ strength.result.feedback = <<>>

\* C7: when handleGeneratePassword runs while no class is checked, the
\* displayed password is left as it was, an error message is shown and no
\* exception leaves the handler.
C7_NoClassCheckedKeepsOutput ==
    [][(~AnyChecked(checkboxes) /\ (InitializeApp \/ ClickGenerate))
       => (/\ passwordOutput' = passwordOutput
           /\ toast' # ""
           /\ ~uncaught')]_vars

\* The generate handler has run with no class checked.
C7_Witness ==
    /\ appState = "ready"
    /\ ~AnyChecked(checkboxes)
    /\ toast = MsgNoCharacterSet
    /\ passwordOutput = <<>>
    /\ ~uncaught

OnlyChecked(target) ==
    \A c \in ClassNames : checkboxes[c] <=> (c = target)

NumChecked == Cardinality({c \in ClassNames : checkboxes[c]})

\* C10: once a handler has completed, if the slider value is at least the
\* number of checked classes, a non-empty displayed password has the
\* slider's length and only characters of the checked classes.
C10_OutputTracksControls ==
    (appState = "ready" /\ passwordOutput # <<>>
        /\ ParseInt(lengthSlider) >= NumChecked)
    => /\ Len(passwordOutput) = ParseInt(lengthSlider)
       /\ \A m \in 1..Len(passwordOutput) :
              \E c \in ClassNames :
                  checkboxes[c] /\ passwordOutput[m] \in Range(CHAR_SETS[c])

\* Two classes are checked, the slider is at its highest value and the
\* password a handler displayed has that length.
C10_Witness ==
    /\ appState = "ready"
    /\ NumChecked = 2
    /\ ParseInt(lengthSlider) = MaxSlider
    /\ Len(passwordOutput) = MaxSlider
    /\ toast = ""

====
